---- MODULE Spec2Model ----
(***************************************************************************)
(* Turn-taking control of the two voice surfaces of the repository:        *)
(*   VoiceInterface      (src/unnamed/part_003)                            *)
(*   RealTimeVoiceChat   (src/frontend/src/components/                     *)
(*                        AgentStatusIndicator.tsx, lines 241-692)         *)
(* Both are React function components.  The recognition callbacks are      *)
(* bound once, in the mount effect, so the functions they call are the     *)
(* ones of the first render and read the state values of the first render  *)
(* (MountClosure); click handlers read the state of the current render.    *)
(* Texts are sequences of tokens; the token " " is white space.            *)
(***************************************************************************)
EXTENDS Naturals, Integers, Sequences, FiniteSets, TLC

\* ------------------------------------------------------------------ bounds
MaxRequests == 2
MaxClock == 1
MaxMicRequests == 2

VARIABLES
  surface,            \* which component is mounted
  isListening, isProcessing, isSpeaking,
  conversation,
  error,
  permissionGranted,  \* VoiceInterface only
  recState,           \* the platform recognizer behind recognitionRef
  utterances,         \* the platform synthesizer's utterances behind synthRef
  resumeTimers,       \* pending setTimeout callbacks of utterance.onend
  requests,           \* fetch calls that have not settled
  micRequests,        \* pending getUserMedia promises of VoiceInterface.startListening
  now,                \* Date.now()
  accepted,           \* history: the final transcripts for which a request was issued
  settled,            \* history: the outcome of every settled request
  cleared,            \* history: the log was cleared
  stopRequested,      \* history: the user stopped a playing utterance and has not started since
  abandoned,          \* history: the requests in flight that the user stopped on
  resumePending,      \* history: an answer's playback ended normally, capture has not restarted
  streamOpen,         \* a MediaStream obtained through getUserMedia has live tracks
  monitorRequests,    \* pending getUserMedia promises of the audio visualization effect
  failureAnnounced,   \* history: an error message was played to its end, no user start since
  windowStop,         \* history: the user stopped while a resume timer was pending
  uncaught,           \* history: an exception left a handler uncaught
  selectedVoice,      \* VoiceInterface: the voice preference
  chosenVoice         \* history: the voice the user last chose in the settings

flags == <<isListening, isProcessing, isSpeaking>>
hist == <<accepted, settled, cleared, stopRequested, abandoned, resumePending,
          failureAnnounced, windowStop, uncaught>>
mic == <<streamOpen, monitorRequests>>
prefs == <<selectedVoice, chosenVoice>>
vars == <<surface, isListening, isProcessing, isSpeaking,
          conversation, error, permissionGranted, recState,
          utterances, resumeTimers, requests, micRequests, now,
          accepted, settled, cleared, stopRequested, abandoned, resumePending,
          streamOpen, monitorRequests, failureAnnounced, windowStop, uncaught,
          selectedVoice, chosenVoice>>

\* ------------------------------------------------------------------- texts
None == <<"<undefined>">>

RECURSIVE TrimStart(_)
TrimStart(t) ==
  IF t # <<>> /\ Head(t) = " " THEN TrimStart(Tail(t)) ELSE t

RECURSIVE TrimEnd(_)
TrimEnd(t) ==
  IF t # <<>> /\ t[Len(t)] = " " THEN TrimEnd(SubSeq(t, 1, Len(t) - 1)) ELSE t

\* String.prototype.trim
Trim(t) == TrimEnd(TrimStart(t))

\* the values the components' closures of the first render hold
MountClosure ==
  [isListening |-> FALSE, isProcessing |-> FALSE,
   conversation |-> <<>>, selectedVoice |-> None]

\* 'speechSynthesis' in window: synthRef.current is set
SynthSupported == TRUE

\* recognition.continuous
Continuous == surface = "RealTimeVoiceChat"

\* ---------------------------------------------------- platform recognizer
\* recognition.start(): starts an inactive recognizer, throws otherwise
StartThrows(rs) == rs # "inactive"
AfterStart(rs) == IF rs = "inactive" THEN "starting" ELSE rs

\* recognition.stop()
AfterStop(rs) ==
  CASE rs = "active" -> "stopping"
    [] rs = "starting" -> "ending"
    [] OTHER -> rs

CaptureActive == recState \in {"active", "stopping"}

\* --------------------------------------------------- platform synthesizer
\* speechSynthesis.cancel()
Cancel(uts) ==
  { [u EXCEPT !.phase = CASE u.phase = "speaking" -> "cancelledSpeaking"
                          [] u.phase = "queued" -> "cancelledQueued"
                          [] OTHER -> u.phase] : u \in uts }

PlaybackActive == \E u \in utterances : u.phase = "speaking"


\* ------------------------------------------------------- inputs (bounded)
\* the results of one recognition event, from event.resultIndex on
ResultEvents ==
  { << [transcript |-> <<"a">>, isFinal |-> FALSE] >>,
    << [transcript |-> <<" ">>, isFinal |-> TRUE] >>,
    << [transcript |-> <<" ", "b">>, isFinal |-> TRUE],
       [transcript |-> <<"c">>, isFinal |-> FALSE] >> }

\* what a fetch call can settle with
Responses ==
  { [kind |-> "ok", results_summary |-> <<"x">>, summary |-> <<"y">>, status |-> 200],
    [kind |-> "ok", results_summary |-> None, summary |-> None, status |-> 200],
    [kind |-> "http", results_summary |-> None, summary |-> None, status |-> 500] }

StartErrors == {"not-allowed"}
RunErrors == {"no-speech"}

\* ------------------------------------------------------------ onresult loop
RECURSIVE FinalTranscript(_)
FinalTranscript(results) ==
  IF results = <<>> THEN <<>>
  ELSE (IF Head(results).isFinal THEN Head(results).transcript ELSE <<>>)
       \o FinalTranscript(Tail(results))

RECURSIVE InterimTranscript(_)
InterimTranscript(results) ==
  IF results = <<>> THEN <<>>
  ELSE (IF Head(results).isFinal THEN <<>> ELSE Head(results).transcript)
       \o InterimTranscript(Tail(results))

\* --------------------------------------------------------- backend answers
Truthy(t) == t # None /\ t # <<>>

DefaultAnswer ==
  IF surface = "RealTimeVoiceChat"
  THEN <<"I processed your request successfully!">>
  ELSE <<"I processed your request successfully.">>

\* result.results?.summary || result.summary || '<default>'
AiText(resp) ==
  IF Truthy(resp.results_summary) THEN resp.results_summary
  ELSE IF Truthy(resp.summary) THEN resp.summary
  ELSE DefaultAnswer

\* the message of the Error the try block throws
ThrownMessage(resp) ==
  CASE resp.kind = "http" ->
         IF surface = "RealTimeVoiceChat" THEN <<"HTTP 500">>
         ELSE <<"HTTP 500: Internal Server Error">>
    [] OTHER -> <<"Unexpected token < in JSON">>

ErrorMsg(resp) == <<"Sorry, I encountered an error: ">> \o ThrownMessage(resp)

Succeeds(resp) == resp.kind = "ok"

InFlight == { r.id : r \in requests }

\* ------------------------------------------------------------------- Init
Init ==
  /\ surface \in {"VoiceInterface", "RealTimeVoiceChat"}
  /\ isListening = FALSE /\ isProcessing = FALSE /\ isSpeaking = FALSE
  /\ conversation = <<>>
  /\ error = <<>>
  /\ permissionGranted = FALSE
  /\ recState = "inactive"
  /\ utterances = {}
  /\ resumeTimers = 0
  /\ requests = {}
  /\ micRequests = 0
  /\ now = 0
  /\ accepted = <<>>
  /\ settled = {}
  /\ cleared = FALSE
  /\ stopRequested = FALSE
  /\ abandoned = {}
  /\ resumePending = FALSE
  /\ streamOpen = FALSE
  /\ monitorRequests = 0
  /\ failureAnnounced = FALSE
  /\ windowStop = FALSE
  /\ uncaught = FALSE
  /\ selectedVoice = None
  /\ chosenVoice = None

\* ===================================================== RealTimeVoiceChat
\* speakText without synthRef.current.cancel()
RT_speakText_noCancel(id, text) ==
  IF ~SynthSupported \/ Trim(text) = <<>>
  THEN UNCHANGED <<utterances, isSpeaking>>
  ELSE /\ utterances' = utterances \cup
                          {[id |-> id, text |-> text, phase |-> "queued"]}
       /\ isSpeaking' = TRUE

\* speakText(text), for the utterance of request id
RT_speakText(id, text) ==
  IF ~SynthSupported \/ Trim(text) = <<>>
  THEN UNCHANGED <<utterances, isSpeaking>>
  ELSE /\ utterances' = Cancel(utterances) \cup
                          {[id |-> id, text |-> text, phase |-> "queued"]}
       /\ isSpeaking' = TRUE

\* stopSpeaking()
RT_stopSpeaking ==
  IF SynthSupported
  THEN /\ utterances' = Cancel(utterances)
       /\ isSpeaking' = FALSE
  ELSE UNCHANGED <<utterances, isSpeaking>>

\* stopListening without its isListening test
StopListening_unguarded(l, rs) == AfterStop(rs)

\* stopListening() as created by a render in which isListening was l
StopListening(l, rs) == IF l THEN AfterStop(rs) ELSE rs

\* processVoiceInput(text) of the first render, called by recognition.onresult;
\* rs is the recognizer's state when the handler runs
RT_processVoiceInput(text, rs) ==
  IF Trim(text) = <<>> \/ MountClosure.isProcessing
  THEN /\ recState' = rs
       /\ UNCHANGED <<isProcessing, conversation, requests>>
  ELSE /\ isProcessing' = TRUE
       /\ recState' = StopListening(MountClosure.isListening, rs)
       /\ conversation' = Append(conversation,
              [type |-> "user", text |-> text])
       /\ requests' = requests \cup {[id |-> Len(accepted) + 1, task |-> text,
                                      entryId |-> now]}

\* recognition.onresult
RT_onresult(results, rs) ==
  /\ IF FinalTranscript(results) # <<>>
     THEN RT_processVoiceInput(FinalTranscript(results), rs)
     ELSE /\ recState' = rs
          /\ UNCHANGED <<isProcessing, conversation, requests>>
  /\ UNCHANGED <<isListening, isSpeaking, error, permissionGranted, utterances,
                 resumeTimers, micRequests, settled, cleared, stopRequested,
                 abandoned, resumePending, mic, failureAnnounced, windowStop,
                 uncaught>>

\* processVoiceInput with a catch block that sends the request again
RT_fetchSettled_retry(r, resp) ==
  /\ requests' = IF Succeeds(resp) \/ r.id > MaxRequests THEN requests \ {r}
                 ELSE (requests \ {r}) \cup {[r EXCEPT !.id = r.id + MaxRequests]}
  /\ IF Succeeds(resp)
     THEN /\ conversation' = Append(conversation,
                 [type |-> "ai", text |-> AiText(resp)])
          /\ RT_speakText(r.id, AiText(resp))
          /\ settled' = settled \cup {[id |-> r.id, ok |-> TRUE, text |-> AiText(resp)]}
          /\ UNCHANGED error
     ELSE /\ error' = ErrorMsg(resp)
          /\ RT_speakText(r.id, ErrorMsg(resp))
          /\ settled' = settled \cup {[id |-> r.id, ok |-> FALSE, text |-> ErrorMsg(resp)]}
          /\ UNCHANGED conversation
  /\ isProcessing' = FALSE
  /\ abandoned' = abandoned \ {r.id}
  /\ UNCHANGED <<isListening, permissionGranted, recState, resumeTimers,
                 micRequests, accepted, cleared, stopRequested, resumePending,
                 mic, failureAnnounced, windowStop, uncaught>>

\* the rest of processVoiceInput, after the awaited fetch settles with resp
RT_fetchSettled(r, resp) ==
  /\ requests' = requests \ {r}
  /\ IF Succeeds(resp)
     THEN /\ conversation' = Append(conversation,
                 [type |-> "ai", text |-> AiText(resp)])
          /\ RT_speakText(r.id, AiText(resp))
          /\ settled' = settled \cup {[id |-> r.id, ok |-> TRUE, text |-> AiText(resp)]}
          /\ UNCHANGED error
     ELSE /\ error' = ErrorMsg(resp)
          /\ RT_speakText(r.id, ErrorMsg(resp))
          /\ settled' = settled \cup {[id |-> r.id, ok |-> FALSE, text |-> ErrorMsg(resp)]}
          /\ UNCHANGED conversation
  /\ isProcessing' = FALSE
  /\ abandoned' = abandoned \ {r.id}
  /\ UNCHANGED <<isListening, permissionGranted, recState, resumeTimers,
                 micRequests, accepted, cleared, stopRequested, resumePending,
                 mic, failureAnnounced, windowStop, uncaught>>

\* startListening() as created by a render with isListening = l, isProcessing = p
RT_startListening(l, p) ==
  IF ~l /\ ~p
  THEN /\ error' = <<>>
       /\ recState' = AfterStart(recState)
       /\ uncaught' = (uncaught \/ StartThrows(recState))
  ELSE UNCHANGED <<error, recState, uncaught>>

\* the main button: toggleVoiceChat (disabled while isProcessing)
RT_toggleVoiceChat ==
  /\ surface = "RealTimeVoiceChat"
  /\ ~isProcessing
  /\ IF isListening
     THEN /\ recState' = StopListening(isListening, recState)
          /\ UNCHANGED <<error, utterances, isSpeaking, uncaught>>
     ELSE IF isSpeaking
     THEN /\ RT_stopSpeaking
          /\ UNCHANGED <<error, recState, uncaught>>
     ELSE /\ RT_startListening(isListening, isProcessing)
          /\ UNCHANGED <<utterances, isSpeaking>>
  /\ stopRequested' = IF isListening THEN stopRequested
                      ELSE IF isSpeaking THEN (stopRequested \/ PlaybackActive)
                      ELSE FALSE
  /\ abandoned' = IF isListening \/ isSpeaking THEN abandoned \cup InFlight
                  ELSE abandoned
  /\ resumePending' = FALSE
  /\ failureAnnounced' = IF isListening \/ isSpeaking THEN failureAnnounced ELSE FALSE
  /\ windowStop' = IF isListening \/ isSpeaking THEN (windowStop \/ resumeTimers > 0)
                   ELSE FALSE
  /\ UNCHANGED <<surface, prefs, isListening, isProcessing, conversation,
                 permissionGranted, resumeTimers, requests, micRequests, now,
                 accepted, settled, cleared, mic>>

\* the Stop Speaking button (disabled unless isSpeaking)
RT_stopSpeakingButton ==
  /\ surface = "RealTimeVoiceChat"
  /\ isSpeaking
  /\ RT_stopSpeaking
  /\ stopRequested' = (stopRequested \/ PlaybackActive)
  /\ abandoned' = abandoned \cup InFlight
  /\ resumePending' = FALSE
  /\ windowStop' = (windowStop \/ resumeTimers > 0)
  /\ UNCHANGED <<surface, prefs, isListening, isProcessing,
                 conversation, error, permissionGranted, recState, resumeTimers,
                 requests, micRequests, now, accepted, settled, cleared, mic,
                 failureAnnounced, uncaught>>

\* the Clear Chat button
RT_clearChat ==
  /\ surface = "RealTimeVoiceChat"
  /\ conversation' = <<>>
  /\ cleared' = TRUE
  /\ UNCHANGED <<surface, prefs, isListening, isProcessing, isSpeaking,
                 error, permissionGranted, recState, utterances,
                 resumeTimers, requests, micRequests, now, accepted, settled,
                 stopRequested, abandoned, resumePending, mic, failureAnnounced,
                 windowStop, uncaught>>

\* the setTimeout callback of utterance.onend: isProcessing and startListening
\* are those of the render that created speakText
RT_resumeTimer ==
  /\ surface = "RealTimeVoiceChat"
  /\ resumeTimers > 0
  /\ resumeTimers' = resumeTimers - 1
  /\ IF ~MountClosure.isProcessing
     THEN RT_startListening(MountClosure.isListening, MountClosure.isProcessing)
     ELSE UNCHANGED <<error, recState, uncaught>>
  /\ UNCHANGED <<surface, prefs, isListening, isProcessing, isSpeaking,
                 conversation, permissionGranted, utterances, requests,
                 micRequests, now, accepted, settled, cleared, stopRequested,
                 abandoned, resumePending, mic, failureAnnounced, windowStop>>

\* the audio visualization effect's getUserMedia resolved: the stream feeds
\* the analyser; neither the stream nor the AudioContext is ever closed, and
\* draw() tests the isListening of the render that ran the effect (true)
RT_getUserMediaResolved ==
  /\ surface = "RealTimeVoiceChat"
  /\ monitorRequests > 0
  /\ monitorRequests' = monitorRequests - 1
  /\ streamOpen' = TRUE
  /\ UNCHANGED <<surface, prefs, flags, conversation, error, permissionGranted, recState,
                 utterances, resumeTimers, requests, micRequests, now, hist>>

\* a catch handler that also ends the session's listening state
RT_getUserMediaRejected_stopsListening ==
  /\ surface = "RealTimeVoiceChat"
  /\ monitorRequests > 0
  /\ monitorRequests' = monitorRequests - 1
  /\ error' = <<"Microphone access denied">>
  /\ isListening' = FALSE
  /\ UNCHANGED <<surface, prefs, isProcessing, isSpeaking, conversation,
                 permissionGranted, recState, utterances, resumeTimers, requests,
                 micRequests, now, hist, streamOpen>>

\* the audio visualization effect's getUserMedia rejected
RT_getUserMediaRejected ==
  /\ surface = "RealTimeVoiceChat"
  /\ monitorRequests > 0
  /\ monitorRequests' = monitorRequests - 1
  /\ error' = <<"Microphone access denied">>
  /\ UNCHANGED <<surface, prefs, flags, conversation, permissionGranted, recState,
                 utterances, resumeTimers, requests, micRequests, now, hist,
                 streamOpen>>

\* ========================================================= VoiceInterface
\* the cleanText of speakText: markdown markers removed, newlines turned into
\* sentence breaks, white space normalised and trimmed
RECURSIVE CleanTokens(_)
CleanTokens(t) ==
  IF t = <<>> THEN <<>>
  ELSE IF Head(t) \in {"**", "*", "BACKTICK", "# "} THEN CleanTokens(Tail(t))
  ELSE IF Head(t) = "\n" THEN <<".", " ">> \o CleanTokens(Tail(t))
  ELSE <<Head(t)>> \o CleanTokens(Tail(t))

RECURSIVE Squeeze(_)
Squeeze(t) ==
  IF Len(t) < 2 THEN t
  ELSE IF t[1] = " " /\ t[2] = " " THEN Squeeze(Tail(t))
  ELSE <<Head(t)>> \o Squeeze(Tail(t))

CleanText(t) == Trim(Squeeze(CleanTokens(t)))

\* speakText(text) as created by a render in which selectedVoice was voice
VI_speakText(id, text, voice) ==
  IF ~SynthSupported \/ voice = None \/ Trim(text) = <<>>
  THEN UNCHANGED <<utterances, isSpeaking>>
  ELSE /\ utterances' = Cancel(utterances) \cup
                          {[id |-> id, text |-> CleanText(text), phase |-> "queued"]}
       /\ isSpeaking' = TRUE

\* stopSpeaking()
VI_stopSpeaking ==
  IF SynthSupported
  THEN /\ utterances' = Cancel(utterances)
       /\ isSpeaking' = FALSE
  ELSE UNCHANGED <<utterances, isSpeaking>>

ProcessingText == <<"Processing your request...">>

\* conversation.slice(-4).map(c => ({role, content}))
ContextTurns == 4
ContextOf(log) ==
  LET from == IF Len(log) > ContextTurns THEN Len(log) - ContextTurns + 1 ELSE 1
  IN [i \in 1..(Len(log) - from + 1) |->
        [role |-> IF log[from + i - 1].type = "user" THEN "user" ELSE "assistant",
         content |-> log[from + i - 1].text]]

\* processUserInput(text) of the first render, called by recognition.onresult
VI_processUserInput(text) ==
  IF Trim(text) = <<>>
  THEN UNCHANGED <<isProcessing, conversation, requests>>
  ELSE /\ conversation' = conversation \o
            << [id |-> <<"user-", now>>, type |-> "user", text |-> text,
                isProcessing |-> FALSE],
               [id |-> <<"assistant-", now>>, type |-> "assistant",
                text |-> ProcessingText, isProcessing |-> TRUE] >>
       /\ isProcessing' = TRUE
       /\ requests' = requests \cup
            {[id |-> Len(accepted) + 1, task |-> text, entryId |-> now,
              context |-> ContextOf(MountClosure.conversation)]}

\* recognition.onresult
VI_onresult(results, rs) ==
  /\ recState' = rs
  /\ IF FinalTranscript(results) # <<>>
     THEN VI_processUserInput(Trim(FinalTranscript(results)))
     ELSE UNCHANGED <<isProcessing, conversation, requests>>
  /\ UNCHANGED <<isListening, isSpeaking, error, permissionGranted, utterances,
                 resumeTimers, micRequests, settled, cleared, stopRequested,
                 abandoned, resumePending, mic, failureAnnounced, windowStop,
                 uncaught>>

\* the placeholder update without `isProcessing: false`
ResolveEntry_keepsProcessing(log, entryId, text) ==
  [i \in 1..Len(log) |->
     IF log[i].id = <<"assistant-", entryId>>
     THEN [log[i] EXCEPT !.text = text]
     ELSE log[i]]

\* prev.map(entry => entry.id === processingEntry.id ? {...entry, text, isProcessing: false} : entry)
ResolveEntry(log, entryId, text) ==
  [i \in 1..Len(log) |->
     IF log[i].id = <<"assistant-", entryId>>
     THEN [log[i] EXCEPT !.text = text, !.isProcessing = FALSE]
     ELSE log[i]]

\* the rest of processUserInput, after the awaited fetch settles with resp
VI_fetchSettled(r, resp) ==
  /\ requests' = requests \ {r}
  /\ IF Succeeds(resp)
     THEN /\ conversation' = ResolveEntry(conversation, r.entryId, AiText(resp))
          /\ VI_speakText(r.id, AiText(resp), MountClosure.selectedVoice)
          /\ settled' = settled \cup {[id |-> r.id, ok |-> TRUE, text |-> AiText(resp)]}
          /\ UNCHANGED error
     ELSE /\ conversation' = ResolveEntry(conversation, r.entryId, ErrorMsg(resp))
          /\ error' = ErrorMsg(resp)
          /\ VI_speakText(r.id, ErrorMsg(resp), MountClosure.selectedVoice)
          /\ settled' = settled \cup {[id |-> r.id, ok |-> FALSE, text |-> ErrorMsg(resp)]}
  /\ isProcessing' = FALSE
  /\ abandoned' = abandoned \ {r.id}
  /\ UNCHANGED <<isListening, permissionGranted, recState, resumeTimers,
                 micRequests, accepted, cleared, stopRequested, resumePending,
                 mic, failureAnnounced, windowStop, uncaught>>

PermissionRequiredMsg ==
  <<"Microphone permission required. Please allow access and try again.">>
FailedToStartMsg == <<"Failed to start speech recognition. Please try again.">>

\* the main button: isListening ? stopListening : startListening (disabled
\* while isProcessing); startListening suspends at `await getUserMedia`
VI_mainButton ==
  /\ surface = "VoiceInterface"
  /\ ~isProcessing
  /\ IF isListening
     THEN /\ recState' = StopListening(isListening, recState)
          /\ UNCHANGED micRequests
     ELSE /\ micRequests < MaxMicRequests
          /\ micRequests' = micRequests + 1
          /\ UNCHANGED recState
  /\ stopRequested' = IF isListening THEN stopRequested ELSE FALSE
  /\ abandoned' = IF isListening THEN abandoned \cup InFlight ELSE abandoned
  /\ resumePending' = FALSE
  /\ failureAnnounced' = IF isListening THEN failureAnnounced ELSE FALSE
  /\ UNCHANGED <<surface, prefs, flags, conversation, error,
                 permissionGranted, utterances, resumeTimers, requests, now,
                 accepted, settled, cleared, mic, windowStop, uncaught>>

\* startListening after getUserMedia resolved
VI_getUserMediaResolved ==
  /\ surface = "VoiceInterface"
  /\ micRequests > 0
  /\ micRequests' = micRequests - 1
  /\ permissionGranted' = TRUE
  /\ error' = IF StartThrows(recState) THEN FailedToStartMsg ELSE <<>>
  /\ recState' = AfterStart(recState)
  /\ streamOpen' = TRUE
  /\ UNCHANGED <<surface, prefs, flags, conversation,
                 utterances, resumeTimers, requests, now, hist, monitorRequests>>

\* the catch block without its `return`: recognition.start() is still called
VI_getUserMediaRejected_noReturn ==
  /\ surface = "VoiceInterface"
  /\ micRequests > 0
  /\ micRequests' = micRequests - 1
  /\ error' = IF StartThrows(recState) THEN FailedToStartMsg ELSE PermissionRequiredMsg
  /\ permissionGranted' = FALSE
  /\ recState' = AfterStart(recState)
  /\ UNCHANGED <<surface, prefs, flags, conversation, utterances, resumeTimers, requests,
                 now, hist, mic>>

\* startListening after getUserMedia rejected
VI_getUserMediaRejected ==
  /\ surface = "VoiceInterface"
  /\ micRequests > 0
  /\ micRequests' = micRequests - 1
  /\ error' = PermissionRequiredMsg
  /\ permissionGranted' = FALSE
  /\ UNCHANGED <<surface, prefs, flags, conversation, recState,
                 utterances, resumeTimers, requests, now, hist, mic>>

\* synthRef.current.getVoices() once the platform has loaded its voices
AvailableVoices == {<<"Samantha">>, <<"Zarvox">>}

\* loadVoices' bestVoice: the first preferred name found in the list
BestVoice == <<"Samantha">>

\* speechSynthesis.onvoiceschanged: loadVoices
VI_loadVoices ==
  /\ surface = "VoiceInterface"
  /\ SynthSupported
  /\ selectedVoice' = BestVoice
  /\ UNCHANGED <<surface, flags, conversation, error, permissionGranted, recState,
                 utterances, resumeTimers, requests, micRequests, now, hist, mic,
                 chosenVoice>>

\* the Voice select's onChange (rendered once availableVoices is not empty)
VI_selectVoice(v) ==
  /\ surface = "VoiceInterface"
  /\ selectedVoice # None
  /\ selectedVoice' = v
  /\ chosenVoice' = v
  /\ UNCHANGED <<surface, flags, conversation, error, permissionGranted, recState,
                 utterances, resumeTimers, requests, micRequests, now, hist, mic>>

\* the Clear Chat button: clearConversation
VI_clearConversation ==
  /\ surface = "VoiceInterface"
  /\ conversation' = <<>>
  /\ error' = <<>>
  /\ recState' = StopListening(isListening, recState)
  /\ VI_stopSpeaking
  /\ cleared' = TRUE
  /\ UNCHANGED <<surface, prefs, isListening, isProcessing,
                 permissionGranted, resumeTimers, requests, micRequests, now,
                 accepted, settled, stopRequested, abandoned, resumePending, mic,
                 failureAnnounced, windowStop, uncaught>>

\* ====================================================== platform events
\* recognition.onstart
RecOnStart ==
  /\ recState = "starting"
  /\ recState' = "active"
  /\ IF surface = "RealTimeVoiceChat" /\ ~isListening /\ ~streamOpen
     THEN /\ monitorRequests < MaxMicRequests
          /\ monitorRequests' = monitorRequests + 1
     ELSE UNCHANGED monitorRequests
  /\ isListening' = TRUE
  /\ error' = <<>>
  /\ resumePending' = FALSE
  /\ UNCHANGED <<surface, prefs, isProcessing, isSpeaking, conversation,
                 permissionGranted, utterances, resumeTimers, requests,
                 micRequests, now, accepted, settled, cleared, stopRequested,
                 abandoned, streamOpen, failureAnnounced, windowStop, uncaught>>

\* a result event of the recognizer; a recognizer that is not continuous, or
\* that was told to stop, ends after its final result
RecOnResult(results) ==
  /\ recState \in {"active", "stopping"}
  /\ Len(accepted) < MaxRequests
  /\ LET rs == IF FinalTranscript(results) # <<>>
                  /\ (~Continuous \/ recState = "stopping")
               THEN "ending" ELSE recState
     IN IF surface = "RealTimeVoiceChat"
        THEN RT_onresult(results, rs)
        ELSE VI_onresult(results, rs)
  /\ accepted' = IF requests' # requests
                 THEN Append(accepted, FinalTranscript(results)) ELSE accepted
  /\ UNCHANGED <<surface, prefs, now>>

\* recognition.onend
RecOnEnd ==
  /\ recState \in {"active", "stopping", "ending"}
  /\ recState' = "inactive"
  /\ isListening' = FALSE
  /\ UNCHANGED <<surface, prefs, isProcessing, isSpeaking,
                 conversation, error, permissionGranted, utterances, resumeTimers,
                 requests, micRequests, now, hist, mic>>

\* the message VoiceInterface's recognition.onerror shows for event.error
VI_errorMessage(kind) ==
  CASE kind = "no-speech" -> <<"No speech detected. Please try again.">>
    [] kind = "audio-capture" ->
         <<"Microphone not accessible. Please check permissions.">>
    [] kind = "not-allowed" ->
         <<"Microphone permission denied. Please allow microphone access.">>
    [] kind = "network" -> <<"Network error. Please check your connection.">>
    [] OTHER -> <<"Speech recognition error: ", kind>>

\* recognition.onerror; the recognizer's end event follows
RecOnError(kind) ==
  /\ \/ recState = "starting" /\ kind \in StartErrors
     \/ recState \in {"active", "stopping"} /\ kind \in RunErrors
  /\ recState' = "ending"
  /\ isListening' = FALSE
  /\ IF surface = "RealTimeVoiceChat"
     THEN /\ error' = <<"Speech recognition error: ", kind>>
          /\ UNCHANGED permissionGranted
     ELSE /\ error' = VI_errorMessage(kind)
          /\ permissionGranted' = IF kind = "not-allowed" THEN FALSE
                                  ELSE permissionGranted
  /\ resumePending' = IF recState = "starting" THEN FALSE ELSE resumePending
  /\ UNCHANGED <<surface, prefs, isProcessing, isSpeaking,
                 conversation, utterances, resumeTimers, requests, micRequests,
                 now, accepted, settled, cleared, stopRequested, abandoned, mic,
                 failureAnnounced, windowStop, uncaught>>

\* a fetch call settles
FetchSettled(r, resp) ==
  /\ r \in requests
  /\ IF surface = "RealTimeVoiceChat"
     THEN RT_fetchSettled(r, resp)
     ELSE VI_fetchSettled(r, resp)
  /\ UNCHANGED <<surface, prefs, now>>

\* utterance.onstart: the synthesizer begins to play a queued utterance
UttOnStart(u) ==
  /\ u \in utterances
  /\ u.phase = "queued"
  /\ ~PlaybackActive
  /\ utterances' = (utterances \ {u}) \cup {[u EXCEPT !.phase = "speaking"]}
  /\ isSpeaking' = TRUE
  /\ UNCHANGED <<surface, prefs, isListening, isProcessing,
                 conversation, error, permissionGranted, recState, resumeTimers,
                 requests, micRequests, now, hist, mic>>

\* utterance.onend: playback finished, or (on platforms that report a
\* cancellation as an end) a playing utterance was cancelled
UttOnEnd(u) ==
  /\ u \in utterances
  /\ u.phase \in {"speaking", "cancelledSpeaking"}
  /\ utterances' = utterances \ {u}
  /\ isSpeaking' = FALSE
  /\ resumeTimers' = IF surface = "RealTimeVoiceChat" THEN resumeTimers + 1
                     ELSE resumeTimers
  /\ resumePending' = IF /\ surface = "RealTimeVoiceChat"
                         /\ u.phase = "speaking"
                         /\ \E s \in settled : s.id = u.id /\ s.ok
                         /\ ~stopRequested
                      THEN TRUE ELSE resumePending
  /\ failureAnnounced' = IF /\ u.phase = "speaking"
                            /\ \E s \in settled : s.id = u.id /\ ~s.ok
                         THEN TRUE ELSE failureAnnounced
  /\ UNCHANGED <<surface, prefs, isListening, isProcessing,
                 conversation, error, permissionGranted, recState, requests,
                 micRequests, now, accepted, settled, cleared, stopRequested,
                 abandoned, mic, windowStop, uncaught>>

\* utterance.onerror: synthesis failed, or the utterance was cancelled
UttOnError(u) ==
  /\ u \in utterances
  /\ utterances' = utterances \ {u}
  /\ isSpeaking' = FALSE
  /\ error' = IF surface = "VoiceInterface"
              THEN <<"Text-to-speech error occurred">> ELSE error
  /\ UNCHANGED <<surface, prefs, isListening, isProcessing,
                 conversation, permissionGranted, recState, resumeTimers,
                 requests, micRequests, now, hist, mic>>

\* time passes
Tick ==
  /\ surface = "VoiceInterface"
  /\ now < MaxClock
  /\ now' = now + 1
  /\ UNCHANGED <<surface, prefs, flags, conversation, error,
                 permissionGranted, recState, utterances, resumeTimers, requests,
                 micRequests, hist, mic>>

\* ------------------------------------------------------------------- Next
Next ==
  \/ RT_toggleVoiceChat
  \/ RT_stopSpeakingButton
  \/ RT_clearChat
  \/ RT_resumeTimer
  \/ RT_getUserMediaResolved
  \/ RT_getUserMediaRejected
  \/ VI_mainButton
  \/ VI_getUserMediaResolved
  \/ VI_getUserMediaRejected
  \/ VI_clearConversation
  \/ VI_loadVoices
  \/ \E v \in AvailableVoices : VI_selectVoice(v)
  \/ RecOnStart
  \/ \E results \in ResultEvents : RecOnResult(results)
  \/ RecOnEnd
  \/ \E kind \in StartErrors \cup RunErrors : RecOnError(kind)
  \/ \E r \in requests, resp \in Responses : FetchSettled(r, resp)
  \/ \E u \in utterances : UttOnStart(u)
  \/ \E u \in utterances : UttOnEnd(u)
  \/ \E u \in utterances : UttOnError(u)
  \/ Tick

Spec == Init /\ [][Next]_vars

\* the timer of utterance.onend fires; a recognizer that was started reports
\* its start, and a recognition session ends
FairSpec ==
  Spec /\ WF_vars(RT_resumeTimer) /\ WF_vars(RecOnStart) /\ WF_vars(RecOnEnd)

\* ================================================================ claims
\* the log as (speaker, text) pairs
Speaker(e) == IF e.type = "user" THEN "User" ELSE "Assistant"
LogView == [i \in 1..Len(conversation) |-> <<Speaker(conversation[i]), conversation[i].text>>]
NoEntryProcessing ==
  surface = "VoiceInterface" => \A i \in 1..Len(conversation) : ~conversation[i].isProcessing

\* C1: speech capture and speech playback are never active at the same time.
C1_CaptureXorPlayback == ~(CaptureActive /\ PlaybackActive)

\* C2: at most one backend request is outstanding: a final transcript that
\* arrives while a request has not settled issues no second request.
C2_AtMostOneOutstanding == Cardinality(requests) <= 1

\* C3: a request is issued for a final transcript only once capture has been
\* stopped: after the step that issues it the recognizer is no longer running.
C3_DispatchAfterCaptureStopped ==
  [][accepted' # accepted => recState' \notin {"starting", "active"}]_vars

\* C4: while a request is in flight the recognizer is not running and is not
\* being started.
C4_NoCaptureWhileInFlight == requests # {} => recState \notin {"starting", "active"}

\* C5: once the user has stopped a playing utterance, the recognizer is not
\* started until the user starts it.
C5_StopPreventsResume ==
  [][(stopRequested /\ stopRequested') =>
       ~(recState # "starting" /\ recState' = "starting")]_vars

\* C6: the response of a request the user stopped on changes neither the log
\* nor the playback state.
C6_AbandonedResponseDiscarded ==
  [][\A id \in abandoned :
        (id \in InFlight /\ id \notin {r.id : r \in requests'}) =>
          /\ conversation' = conversation
          /\ utterances' = utterances
          /\ isSpeaking' = isSpeaking]_vars

\* one transcript was accepted, its request succeeded, nothing was cleared
RoundTripDone ==
  /\ Len(accepted) = 1
  /\ ~cleared
  /\ \E s \in settled : s.id = 1 /\ s.ok

Answer(id) == (CHOOSE s \in settled : s.id = id).text

C8_ResponseIsSpoken ==
  [][\A s \in settled' \ settled :
        (s.ok /\ SynthSupported) =>
          \E u \in utterances' :
             u.id = s.id /\ u.text = s.text /\ u.phase = "queued"]_vars

\* C9: after playback ended normally with no stop by the user, Listening is
\* entered again (the recognizer reports its start) without a user action.
C9_ListeningReentered == resumePending ~> ~resumePending

\* C10: when microphone permission is denied on start the error shows a
\* permission message, the denied start does not start the recognizer or
\* turn Listening on, and neither the log nor the requests change.
PermissionMessages ==
  { PermissionRequiredMsg, VI_errorMessage("not-allowed"),
    <<"Speech recognition error: ", "not-allowed">> }
\* getUserMedia rejected, or the recognizer that was starting reported
\* not-allowed (the only error of a starting recognizer)
PermissionDeniedStep ==
  \/ micRequests' = micRequests - 1 /\ ~permissionGranted'
  \/ recState = "starting" /\ recState' = "ending"
C10_PermissionDenied ==
  [][PermissionDeniedStep =>
       /\ error' \in PermissionMessages
       /\ recState' \in {recState, "ending"}
       /\ isListening' => isListening
       /\ conversation' = conversation
       /\ requests' = requests
       /\ accepted' = accepted]_vars

C10_Witness ==
  /\ error = PermissionRequiredMsg
  /\ ~permissionGranted
  /\ recState = "inactive"
  /\ conversation = <<>> /\ requests = {}

\* C11: when a request fails, the error message is appended to the log as
\* an assistant entry and is handed to playback (its utterance is queued).
C11_FailureLoggedAndSpoken ==
  [][\A s \in settled' \ settled :
        ~s.ok =>
          /\ \E i \in 1..Len(conversation') :
                /\ Speaker(conversation'[i]) = "Assistant"
                /\ conversation'[i].text = s.text
          /\ \E u \in utterances' : u.id = s.id /\ u.phase = "queued"]_vars

\* C12: once the error message of a failed request has been played to its
\* end, capture is not started again until the user starts it: the session
\* stays idle.
C12_IdleAfterFailure ==
  [][(failureAnnounced /\ failureAnnounced') =>
       ~(recState # "starting" /\ recState' = "starting")]_vars

\* C13: a request in flight is eventually given up: from every state with a
\* request in flight, isProcessing eventually becomes false even if no
\* response ever arrives (no fairness is assumed of the backend).
C13_RequestTimesOut == (requests # {}) ~> ~isProcessing

\* a callback of a cycle the session has moved past: the end or error event
\* of a cancelled utterance, or a final result delivered after
\* recognition.stop() (the only step from stopping to ending that leaves
\* isListening set)
StaleCallbackStep ==
  \/ \E u \in utterances :
        u.phase \in {"cancelledSpeaking", "cancelledQueued"} /\ u \notin utterances'
  \/ recState = "stopping" /\ recState' = "ending" /\ isListening'

\* C14: a stale callback is discarded: it changes no flag, issues no request,
\* appends no log entry and schedules no resume.
C14_StaleCallbackDiscarded ==
  [][StaleCallbackStep =>
       /\ flags' = flags
       /\ requests' = requests
       /\ conversation' = conversation
       /\ resumeTimers' = resumeTimers]_vars

\* the number of entries of speaker sp among the first n entries of the log
RECURSIVE CountSpeaker(_, _)
CountSpeaker(sp, n) ==
  IF n = 0 THEN 0
  ELSE CountSpeaker(sp, n - 1) + (IF Speaker(conversation[n]) = sp THEN 1 ELSE 0)

\* C15: every assistant entry of the log is preceded by the user entry of its
\* cycle: up to any assistant entry the log holds at least as many user
\* entries as assistant entries.
C15_UserBeforeAssistant ==
  \A i \in 1..Len(conversation) :
     Speaker(conversation[i]) = "Assistant" =>
       CountSpeaker("User", i) >= CountSpeaker("Assistant", i)

\* the utterances the synthesizer is playing or will play
LiveUtterances == { u \in utterances : u.phase \in {"queued", "speaking"} }

\* C16: at most one utterance is playing or queued in the synthesizer: every
\* speakText cancels the utterances before it.
C16_OneLiveUtterance == Cardinality(LiveUtterances) <= 1

\* a second answer was handed to playback while the first was playing
C16_Witness ==
  /\ \E u \in utterances : u.phase = "cancelledSpeaking"
  /\ \E u \in utterances : u.phase = "queued"

\* C17: when the session is not Listening (the recognizer is inactive and
\* isListening is false) no microphone stream obtained through getUserMedia
\* is open.
C17_StreamReleased == (~isListening /\ recState = "inactive") => ~streamOpen

\* an adapter reports an error: the recognizer (a starting recognizer ends
\* only through an error; a running one that turns isListening off without
\* having ended reported an error), or, in RealTimeVoiceChat, the synthesizer
\* for an utterance that was not cancelled (only the error event removes an
\* utterance without scheduling the resume timer)
AdapterErrorStep ==
  \/ recState = "starting" /\ recState' = "ending"
  \/ recState \in {"active", "stopping"} /\ recState' = "ending" /\ ~isListening'
  \/ /\ surface = "RealTimeVoiceChat"
     /\ resumeTimers' = resumeTimers
     /\ \E u \in LiveUtterances : \A v \in utterances' : v.id # u.id

\* C18: an adapter error surfaces a message and restarts nothing: no resume
\* is scheduled, the recognizer is not started and no utterance is queued.
C18_AdapterErrorSurfaced ==
  [][AdapterErrorStep =>
       /\ error' # <<>>
       /\ resumeTimers' = resumeTimers
       /\ recState' # "starting"
       /\ utterances' \subseteq utterances]_vars

\* C19: in RealTimeVoiceChat, after the user stopped while the resume timer
\* was pending, the recognizer is not started until the user starts it.
C19_StopCancelsResume ==
  [][(windowStop /\ windowStop') =>
       ~(recState # "starting" /\ recState' = "starting")]_vars

\* C20: no exception of an adapter call leaves a handler uncaught.
C20_NoUncaughtException == ~uncaught

\* C21: a reply that is not a success, or whose body carries no summary, is
\* treated as a failure: the default answer, which the code produces only for
\* a body with no summary string, is never recorded as a successful answer.
C21_MalformedReplyFails ==
  [][\A s \in settled' \ settled : s.ok => s.text # DefaultAnswer]_vars

\* C22: a request is issued only by the step that accepts a final transcript,
\* one request per transcript: no step issues a request otherwise, so a
\* failed request is never sent again.
C22_NoRetry ==
  [][\A r \in requests' \ requests :
        /\ Len(accepted') = Len(accepted) + 1
        /\ r.id = Len(accepted')
        /\ Cardinality(requests' \ requests) = 1]_vars

\* a request failed, its error message was played, and nothing is in flight
C22_Witness ==
  /\ failureAnnounced
  /\ requests = {}
  /\ \E s \in settled : ~s.ok

\* C23: in VoiceInterface the conversation_context of every request is the
\* tail of the log as it was when the transcript was accepted: its last four
\* entries as {role, content}.
C23_ContextIsLogTail ==
  [][\A r \in requests' \ requests :
        surface = "VoiceInterface" => r.context = ContextOf(conversation)]_vars

\* a capture cycle ends, or a result event ends it, with no transcript
\* accepted: the recognizer's end or error event, or a final result whose
\* trimmed text is empty
NoTranscriptStep ==
  /\ accepted' = accepted
  /\ recState \in {"active", "stopping"}
  /\ recState' \in {"ending", "inactive"}

\* C24: a request is issued only for a final transcript whose trimmed text is
\* not empty, and a capture cycle that ends without one issues no request,
\* appends nothing to the log and sets no error.
C24_OnlyNonEmptyFinalDispatches ==
  [][/\ accepted' # accepted => Trim(accepted'[Len(accepted')]) # <<>>
     /\ NoTranscriptStep =>
          /\ requests' = requests
          /\ conversation' = conversation
          /\ error' = error]_vars

MonitorDeniedMsg == <<"Microphone access denied">>

\* the audio-level monitor fails: a getUserMedia promise of the visualization
\* effect settles and the error line shows the monitor's message
MonitorFailureStep ==
  /\ monitorRequests' = monitorRequests - 1
  /\ error' = MonitorDeniedMsg

\* C25: a failure of the audio-level monitor changes neither the session
\* flags nor the log, and leaves the recognizer and the requests as they
\* were, so transcripts are still delivered, dispatched and answered.
C25_MonitorFailureIsolated ==
  [][MonitorFailureStep =>
       /\ flags' = flags
       /\ conversation' = conversation
       /\ recState' = recState
       /\ requests' = requests
       /\ utterances' = utterances]_vars

\* the monitor was denied, and a transcript was dispatched and answered
C25_Witness ==
  /\ error = MonitorDeniedMsg
  /\ ~streamOpen
  /\ \E s \in settled : s.ok
  /\ Len(conversation) = 2

\* C26: the voice the user chose in the settings stays the selected voice:
\* no dialogue operation or platform callback changes it.
C26_VoicePreferenceKept == chosenVoice # None => selectedVoice = chosenVoice

\* nothing is capturing, dispatching or playing
Idle ==
  /\ ~isListening /\ ~isProcessing /\ ~isSpeaking
  /\ requests = {}
  /\ LiveUtterances = {}
  /\ ~CaptureActive

\* C27: a stop in Idle is a no-op: there stopListening leaves the recognizer
\* and stopSpeaking leaves the synthesizer as they are, and the step of
\* VoiceInterface that calls both in Idle (the first Clear Chat) changes no
\* flag, adapter, request or timer.
C27_StopInIdleIsNoOp ==
  [][/\ Idle => /\ StopListening(isListening, recState) = recState
                /\ Cancel(utterances) = utterances
     /\ (Idle /\ surface = "VoiceInterface" /\ ~cleared /\ cleared') =>
          /\ flags' = flags
          /\ recState' = recState
          /\ utterances' = utterances
          /\ requests' = requests
          /\ resumeTimers' = resumeTimers
          /\ micRequests' = micRequests]_vars

\* Clear Chat called stopListening and stopSpeaking while the session was
\* idle and the recognizer was about to start
C27_Witness ==
  /\ surface = "VoiceInterface"
  /\ cleared /\ Idle
  /\ recState = "starting"
  /\ accepted = <<>>

\* C28: isProcessing is true exactly while a request is in flight.
C28_ProcessingIffInFlight == isProcessing <=> requests # {}

\* C29: isSpeaking is true whenever an utterance is playing.
C29_SpeakingWhilePlaying == PlaybackActive => isSpeaking

\* the positions of the log whose entry a step changes
ChangedEntries ==
  { i \in 1..Len(conversation) : conversation'[i] # conversation[i] }

\* C30: in VoiceInterface a settling request rewrites at most one entry of
\* the log, its own placeholder, which was still processing and no longer is.
C30_PlaceholderResolvedOnce ==
  [][(surface = "VoiceInterface" /\ requests' # requests /\ requests' \subseteq requests) =>
       /\ Len(conversation') = Len(conversation)
       /\ Cardinality(ChangedEntries) <= 1
       /\ \A i \in ChangedEntries :
             conversation[i].isProcessing /\ ~conversation'[i].isProcessing]_vars

====
